---- MODULE Spec2Model ----
(***************************************************************************)
(* A model of the bulk execution engine of agency:                         *)
(*   - the host reference executors of                                     *)
(*     testing/executor/executor_traits/executors.hpp                      *)
(*     (bulk_synchronous_executor, bulk_asynchronous_executor,             *)
(*     bulk_continuation_executor), specification Spec / SpecThrow, and    *)
(*     SpecThenFair for bulk_then_execute under fair scheduling;           *)
(*   - the accelerator executor of agency/cuda/grid_executor.hpp with its  *)
(*     shared-argument wrapper, specification SpecGrid;                    *)
(*   - the flattening adapter flattened_executor<cuda::grid_executor>,     *)
(*     specification SpecFlat;                                             *)
(*   - grid_executor::max_shape and the runtime's current device,          *)
(*     specification SpecMaxShape;                                         *)
(*   - a caller that destroys the future of an asynchronous bulk call,     *)
(*     specification SpecDiscard;                                          *)
(*   - the two overloads of detail::copy of                                *)
(*     agency/detail/algorithm/copy.hpp, specification SpecCopy.           *)
(***************************************************************************)
EXTENDS Integers, Sequences, FiniteSets, TLC

\* largest agent count n a host bulk call is made with
MaxN == 5

\* largest agent count n of a host bulk call whose f may throw
MaxNThrow == 4

\* largest outer and inner extent of the shape of a direct accelerator bulk call
MaxOuter == 2
MaxInner == 2

\* most agents in the shape of a direct accelerator bulk call
MaxAgents == 4

\* largest outer and inner extent max_shape() reports to the flattening adapter
MaxHwOuter == 2
MaxHwInner == 2

\* the widths of unsigned int and of size_t in the model: the 32 and 64 bits
\* of the build scaled down, so that every value of either type is an input
UIntBits == 3
SizeBits == 5

\* largest device ordinal: the devices are 0 .. MaxDevice
MaxDevice == 2

\* copy: ranges of 0 .. MaxCopyLen elements, which begin up to MaxCopyGap
\* elements into the array
MaxCopyLen == 3
MaxCopyGap == 2

VARIABLES
  n,            \* the agent count of the host bulk calls
  throwAt,      \* the indices at which the user function f throws
  predReady,    \* the predecessor future handed to bulk_then_execute is satisfied
  factoryCalls, \* per executor: how often result_factory / shared_factory ran
  calls,        \* per executor: how often f was entered, per index
  completed,    \* per executor: how many invocations of f returned normally
  threw,        \* per executor: the indices whose invocation of f threw
  syncState,    \* bulk_execute: "idle", "returned" or "threw"
  syncResult,   \* the object bulk_execute returned
  asyncFut,     \* bulk_async_execute's future: "none", "pending", "ready", "failed"
  asyncValue,   \* the value that future holds once ready
  thenFut,      \* bulk_then_execute's future: "none", "pending", "ready", "failed"
  thenValue,    \* the value that future holds once ready
  tasks,        \* the continuation task (id 1) and the tasks async() spawned
  stackAlive,   \* result / shared_parameter exist on the continuation task's stack
  stackResult,  \* the result object on the continuation task's stack
  stackShared,  \* the shared_parameter object on the continuation task's stack
  gEntry,       \* the accelerator entry point called: "async", "invoke",
                \* "invokeDevice" (bulk_invoke in device code) or "flat"
  gOuter,       \* an outer shared argument was passed (not ignore_t)
  gInner,       \* an inner shared argument was passed (not ignore_t)
  gShape,       \* the shape <<outer extent, inner extent>> handed to launch()
  hostPc,       \* where the calling host thread is in the bulk call
  agentPc,      \* where each agent <<blockIdx.x, threadIdx.x>> of the launch is
  innerObj,     \* per outer group: the __shared__ inner_param, "raw", "alive", "destroyed"
  innerCtor,    \* per outer group: constructions of inner_param
  innerDtor,    \* per outer group: destructions of inner_param
  outerObj,     \* the heap object make_unique made: "none", "alive", "destroyed"
  outerCtor,    \* constructions of the outer shared object
  outerRef,     \* per agent: the outer object f was handed a reference to (0: none
                \* yet; Garbage: what a dangling pointer led to)
  gFut,         \* the future of bulk_async: "none", "pending", "ready",
                \* "failed" (an exception is stored in it)
  promise,      \* the heap promise: "none", "alive" (owned by the callback),
                \* "fulfilled" (set_value called, callback running), "released",
                \* "leaked" (given up to a callback that was refused),
                \* "broken" (set_value on a shared state that is gone)
  flatN,        \* the flat extent given to the flattening adapter
  maxShape,     \* what max_shape() returned to partition(): <<max outer, max
                \* inner>>, <<0, 0>> before
  flatCalls,    \* per flat index: how often the adapter invoked the user function
  gPlain,       \* the call is made on bulk_async(f, shape) / bulk_invoke(f, shape)
                \* of grid_executor itself, without a tuple of shared arguments
  hwLimit,      \* the largest <<grid extent, block extent>> the device accepts
  gCalls,       \* per index: how often the kernel's function was invoked with it
  barriers,     \* per agent: the __syncthreads() it has passed
  flatRef,      \* per flat index: the shared object the adapter handed to the
                \* user function with it (0: none)
  activeDevice, \* the runtime's current device of the calling thread
  msPc,         \* where a call of max_shape() stands: "idle", "getDevice",
                \* "setDevice", "getAttribute", "funcAttributes", "restore",
                \* "returned", "threw"
  msEntryDevice,\* the current device when max_shape() was entered
  msGpu,        \* gpu().native_handle() of the executor
  msCurrent,    \* the local current_device of max_shape()
  msBlockDimX,  \* the local max_block_dimension_x
  msThreads,    \* attr.maxThreadsPerBlock
  msResult,     \* the shape max_shape() returned
  discarded,    \* the futures the caller destroyed without waiting on them:
                \* a subset of {"async", "then", "grid"}
  gStateRefs,   \* the owners of the shared state of bulk_async's future: the
                \* heap promise and the future
  notifyStatus, \* the status the stream gave to grid_executor_notify
  cpFirst,      \* copy: the iterator first, as an address
  cpLast,       \* copy: the iterator last
  cpResult,     \* copy: the iterator result
  cpMem,        \* copy: the memory, address -> value
  cpWrites,     \* copy: per rank i, how often result[i] was written
  cpPc,         \* copy: "idle", "call", "running", "returned"
  cpRet,        \* copy: the iterator the parallel overload returned
  cpSeqMem,     \* copy: the memory the sequential overload leaves for the same
                \* arguments
  cpSeqRet,     \* copy: << >>, or <<r>> once the sequential overload has
                \* returned the iterator r
  ndebug        \* the build defines NDEBUG: assert() expands to nothing

hostVars == <<n, throwAt, predReady, factoryCalls, calls, completed, threw,
              syncState, syncResult, asyncFut, asyncValue, thenFut, thenValue,
              tasks, stackAlive, stackResult, stackShared>>

accelVars == <<gEntry, gOuter, gInner, gShape, hostPc, agentPc, innerObj,
               innerCtor, innerDtor, outerObj, outerCtor, outerRef, gFut, promise,
               flatN, maxShape, flatCalls, gPlain, hwLimit, gCalls, barriers,
               flatRef>>

deviceVars == <<activeDevice, msPc, msEntryDevice, msGpu, msCurrent,
                msBlockDimX, msThreads, msResult>>

futureVars == <<discarded, gStateRefs, notifyStatus>>

copyVars == <<cpFirst, cpLast, cpResult, cpMem, cpWrites, cpPc, cpRet, cpSeqMem,
              cpSeqRet>>

buildVars == <<ndebug>>

vars == <<hostVars, accelVars, deviceVars, futureVars, copyVars, buildVars>>

Executors == {"sync", "async", "then"}

\* the value of a result slot no agent has written
Unset == 0 - 1

\* the indices f may be entered on: one more than any valid index, so that an
\* invocation outside [0, n) shows
Indices == 0 .. MaxN

----------------------------------------------------------------------------
(* The caller's inputs: the factories and the user function.              *)

\* result_factory(n): a container of n slots
result_factory(k) == [i \in 0 .. (k - 1) |-> Unset]

\* shared_factory(n): the shared parameter, here the extent itself
shared_factory(k) == k

\* f(idx, result, shared_parameter): identity-style, offset by the shared parameter
f(idx, result, shared) ==
  IF idx \in DOMAIN result THEN [result EXCEPT ![idx] = idx + shared] ELSE result

----------------------------------------------------------------------------
(* bulk_synchronous_executor and bulk_asynchronous_executor               *)

\* mutant of LoopGoesOn: the loop stops one index early
LoopStopsEarly(i, k) == i + 1 < k

\* for(size_t i = 0; i < n; ++i): the loop goes on while this holds
LoopGoesOn(i, k) == i < k

\* the loop of bulk_execute / bulk_async_execute from index i on; an exception
\* thrown by f leaves the loop
RECURSIVE SeqLoop(_, _, _, _)
SeqLoop(i, k, shared, st) ==
  IF ~LoopGoesOn(i, k) THEN st
  ELSE IF i \in throwAt
       THEN [st EXCEPT !.calls[i] = @ + 1, !.threw = {i}]
       ELSE SeqLoop(i + 1, k, shared,
                    [st EXCEPT !.calls[i] = @ + 1,
                               !.result = f(i, @, shared),
                               !.completed = @ + 1])

\* the body shared by bulk_execute and the task of bulk_async_execute:
\* both factories, then the loop
BulkBody(e) ==
  SeqLoop(0, n, shared_factory(n),
          [result |-> result_factory(n), calls |-> calls[e],
           completed |-> 0, threw |-> {}])

\* what running BulkBody(e) leaves in the instrumentation
BodyEffects(e, st) ==
  /\ factoryCalls' = [factoryCalls EXCEPT ![e] = [rf |-> @.rf + 1, sf |-> @.sf + 1]]
  /\ calls' = [calls EXCEPT ![e] = st.calls]
  /\ completed' = [completed EXCEPT ![e] = st.completed]
  /\ threw' = [threw EXCEPT ![e] = st.threw]

\* bulk_synchronous_executor::bulk_execute, the whole call
BulkExecute ==
  /\ syncState = "idle"
  /\ LET st == BulkBody("sync") IN
       /\ BodyEffects("sync", st)
       /\ syncState' = IF st.threw = {} THEN "returned" ELSE "threw"
       /\ syncResult' = IF st.threw = {} THEN st.result ELSE syncResult
  /\ UNCHANGED <<n, throwAt, predReady, asyncFut, asyncValue, thenFut, thenValue,
                 tasks, stackAlive, stackResult, stackShared>>
  /\ UNCHANGED accelVars
  /\ UNCHANGED deviceVars
  /\ UNCHANGED futureVars
  /\ UNCHANGED copyVars
  /\ UNCHANGED buildVars

\* bulk_asynchronous_executor::bulk_async_execute: std::async hands the lambda to
\* a new thread and the future is returned
BulkAsyncExecute ==
  /\ asyncFut = "none"
  /\ asyncFut' = "pending"
  /\ UNCHANGED <<n, throwAt, predReady, factoryCalls, calls, completed, threw,
                 syncState, syncResult, asyncValue, thenFut, thenValue,
                 tasks, stackAlive, stackResult, stackShared>>
  /\ UNCHANGED accelVars
  /\ UNCHANGED deviceVars
  /\ UNCHANGED futureVars
  /\ UNCHANGED copyVars
  /\ UNCHANGED buildVars

\* the lambda of bulk_async_execute runs on its thread and satisfies the future
AsyncRun ==
  /\ asyncFut = "pending"
  /\ LET st == BulkBody("async") IN
       /\ BodyEffects("async", st)
       /\ asyncFut' = IF st.threw = {} THEN "ready" ELSE "failed"
       /\ asyncValue' = IF st.threw = {} THEN st.result ELSE asyncValue
  /\ UNCHANGED <<n, throwAt, predReady, syncState, syncResult, thenFut, thenValue,
                 tasks, stackAlive, stackResult, stackShared>>
  /\ UNCHANGED accelVars
  /\ UNCHANGED deviceVars
  /\ UNCHANGED futureVars
  /\ UNCHANGED copyVars
  /\ UNCHANGED buildVars

----------------------------------------------------------------------------
(* bulk_continuation_executor                                             *)

\* the pcs of a task of the fork-join, in program order; "unwindR"/"unwindL" are
\* the destructors of right and left running while an exception of f unwinds the
\* task: a future made by std::async blocks in its destructor until its task ends
\* mutant of Finished: a task counts as ended as soon as its own g(mid) returned
FinishedBeforeJoin == {"done", "failed", "waitL", "waitR"}

Finished == {"done", "failed"}

\* size_t mid = n / 2 in the continuation, (last + first) / 2 in async()
Mid(t) == IF t.root THEN n \div 2 ELSE (t.last + t.first) \div 2

\* mutant of SpawnsLeft: an empty left half gets a task too
SpawnsLeftWhenEmpty(t) == t.first <= Mid(t)

\* if(0 < mid) / if(first < mid): the left half [first, mid) gets a task
SpawnsLeft(t) == t.first < Mid(t)

\* if(mid + 1 < n) / if(mid + 1 < last): the right half [mid + 1, last) gets a task
SpawnsRight(t) == Mid(t) + 1 < t.last

\* mutant of RightFirst: the right half starts at mid itself
RightFirstAtMid(t) == Mid(t)

\* the first index of the right half
RightFirst(t) == Mid(t) + 1

\* async(f, first, last): a new task, started on its own thread
NewTask(first, last) ==
  [first |-> first, last |-> last, root |-> FALSE, pc |-> "spawnL",
   left |-> 0, right |-> 0]

\* mutant of Joined: the parent does not wait for the child
JoinedNoWait(ts, c) == TRUE

\* mutant of Joined: left and right start out as futures that never become
\* ready instead of make_ready_future()
JoinedNeedsChild(ts, c) == IF c = 0 THEN FALSE ELSE ts[c].pc \in Finished

\* left.wait() / right.wait() / ~future(): child c (0: a ready future) has ended
Joined(ts, c) == IF c = 0 THEN TRUE ELSE ts[c].pc \in Finished

\* bulk_then_execute: for n > 0 the continuation is chained on the predecessor and
\* its future returned; for n = 0 a ready future of result_factory(n) is returned
BulkThenExecute ==
  /\ thenFut = "none"
  /\ IF n > 0
     THEN /\ tasks' = << [first |-> 0, last |-> n, root |-> TRUE, pc |-> "waitPred",
                          left |-> 0, right |-> 0] >>
          /\ thenFut' = "pending"
          /\ UNCHANGED <<factoryCalls, thenValue>>
     ELSE /\ factoryCalls' = [factoryCalls EXCEPT !["then"].rf = @ + 1]
          /\ thenFut' = "ready"
          /\ thenValue' = result_factory(n)
          /\ UNCHANGED tasks
  /\ UNCHANGED <<n, throwAt, predReady, calls, completed, threw, syncState,
                 syncResult, asyncFut, asyncValue, stackAlive, stackResult,
                 stackShared>>
  /\ UNCHANGED accelVars
  /\ UNCHANGED deviceVars
  /\ UNCHANGED futureVars
  /\ UNCHANGED copyVars
  /\ UNCHANGED buildVars

\* the predecessor future becomes ready
PredecessorReady ==
  /\ ~predReady
  /\ predReady' = TRUE
  /\ UNCHANGED <<n, throwAt, factoryCalls, calls, completed, threw, syncState,
                 syncResult, asyncFut, asyncValue, thenFut, thenValue, tasks,
                 stackAlive, stackResult, stackShared>>
  /\ UNCHANGED accelVars
  /\ UNCHANGED deviceVars
  /\ UNCHANGED futureVars
  /\ UNCHANGED copyVars
  /\ UNCHANGED buildVars

\* the continuation starts once the predecessor is ready: result and
\* shared_parameter are made on its stack
ContinuationStart ==
  /\ Len(tasks) >= 1
  /\ tasks[1].pc = "waitPred"
  /\ predReady
  /\ factoryCalls' = [factoryCalls EXCEPT !["then"] = [rf |-> @.rf + 1, sf |-> @.sf + 1]]
  /\ stackResult' = result_factory(n)
  /\ stackShared' = shared_factory(n)
  /\ stackAlive' = TRUE
  /\ tasks' = [tasks EXCEPT ![1].pc = "spawnL"]
  /\ UNCHANGED <<n, throwAt, predReady, calls, completed, threw, syncState,
                 syncResult, asyncFut, asyncValue, thenFut, thenValue>>
  /\ UNCHANGED accelVars
  /\ UNCHANGED deviceVars
  /\ UNCHANGED futureVars
  /\ UNCHANGED copyVars
  /\ UNCHANGED buildVars

\* left = this->async(g, first, mid), when the left half is not empty
SpawnLeft(t) ==
  /\ tasks[t].pc = "spawnL"
  /\ tasks' = IF SpawnsLeft(tasks[t])
              THEN Append([tasks EXCEPT ![t].pc = "spawnR", ![t].left = Len(tasks) + 1],
                          NewTask(tasks[t].first, Mid(tasks[t])))
              ELSE [tasks EXCEPT ![t].pc = "spawnR"]
  /\ UNCHANGED <<n, throwAt, predReady, factoryCalls, calls, completed, threw,
                 syncState, syncResult, asyncFut, asyncValue, thenFut, thenValue,
                 stackAlive, stackResult, stackShared>>
  /\ UNCHANGED accelVars
  /\ UNCHANGED deviceVars
  /\ UNCHANGED futureVars
  /\ UNCHANGED copyVars
  /\ UNCHANGED buildVars

\* right = this->async(g, mid + 1, last), when the right half is not empty
SpawnRight(t) ==
  /\ tasks[t].pc = "spawnR"
  /\ tasks' = IF SpawnsRight(tasks[t])
              THEN Append([tasks EXCEPT ![t].pc = "invoke", ![t].right = Len(tasks) + 1],
                          NewTask(RightFirst(tasks[t]), tasks[t].last))
              ELSE [tasks EXCEPT ![t].pc = "invoke"]
  /\ UNCHANGED <<n, throwAt, predReady, factoryCalls, calls, completed, threw,
                 syncState, syncResult, asyncFut, asyncValue, thenFut, thenValue,
                 stackAlive, stackResult, stackShared>>
  /\ UNCHANGED accelVars
  /\ UNCHANGED deviceVars
  /\ UNCHANGED futureVars
  /\ UNCHANGED copyVars
  /\ UNCHANGED buildVars

\* g(mid) is entered
InvokeBegin(t) ==
  /\ tasks[t].pc = "invoke"
  /\ calls' = [calls EXCEPT !["then"][Mid(tasks[t])] = @ + 1]
  /\ tasks' = [tasks EXCEPT ![t].pc = "inF"]
  /\ UNCHANGED <<n, throwAt, predReady, factoryCalls, completed, threw,
                 syncState, syncResult, asyncFut, asyncValue, thenFut, thenValue,
                 stackAlive, stackResult, stackShared>>
  /\ UNCHANGED accelVars
  /\ UNCHANGED deviceVars
  /\ UNCHANGED futureVars
  /\ UNCHANGED copyVars
  /\ UNCHANGED buildVars

\* g(mid) returns, having written the result, or throws
InvokeEnd(t) ==
  /\ tasks[t].pc = "inF"
  /\ IF Mid(tasks[t]) \in throwAt
     THEN /\ threw' = [threw EXCEPT !["then"] = @ \cup {Mid(tasks[t])}]
          /\ tasks' = [tasks EXCEPT ![t].pc = "unwindR"]
          /\ UNCHANGED <<completed, stackResult>>
     ELSE /\ stackResult' = f(Mid(tasks[t]), stackResult, stackShared)
          /\ completed' = [completed EXCEPT !["then"] = @ + 1]
          /\ tasks' = [tasks EXCEPT ![t].pc = "waitL"]
          /\ UNCHANGED threw
  /\ UNCHANGED <<n, throwAt, predReady, factoryCalls, calls,
                 syncState, syncResult, asyncFut, asyncValue, thenFut, thenValue,
                 stackAlive, stackShared>>
  /\ UNCHANGED accelVars
  /\ UNCHANGED deviceVars
  /\ UNCHANGED futureVars
  /\ UNCHANGED copyVars
  /\ UNCHANGED buildVars

\* left.wait(), and ~left as the last step of an unwinding task
JoinLeft(t) ==
  /\ tasks[t].pc \in {"waitL", "unwindL"}
  /\ Joined(tasks, tasks[t].left)
  /\ IF tasks[t].pc = "waitL"
     THEN /\ tasks' = [tasks EXCEPT ![t].pc = "waitR"]
          /\ UNCHANGED <<thenFut, stackAlive>>
     ELSE /\ tasks' = [tasks EXCEPT ![t].pc = "failed"]
          /\ thenFut' = IF tasks[t].root THEN "failed" ELSE thenFut
          /\ stackAlive' = IF tasks[t].root THEN FALSE ELSE stackAlive
  /\ UNCHANGED <<n, throwAt, predReady, factoryCalls, calls, completed, threw,
                 syncState, syncResult, asyncFut, asyncValue, thenValue,
                 stackResult, stackShared>>
  /\ UNCHANGED accelVars
  /\ UNCHANGED deviceVars
  /\ UNCHANGED futureVars
  /\ UNCHANGED copyVars
  /\ UNCHANGED buildVars

\* right.wait() and the return that follows it (the continuation moves result
\* into its future), and ~right as the first step of an unwinding task
JoinRight(t) ==
  /\ tasks[t].pc \in {"waitR", "unwindR"}
  /\ Joined(tasks, tasks[t].right)
  /\ IF tasks[t].pc = "waitR"
     THEN /\ tasks' = [tasks EXCEPT ![t].pc = "done"]
          /\ thenFut' = IF tasks[t].root THEN "ready" ELSE thenFut
          /\ thenValue' = IF tasks[t].root THEN stackResult ELSE thenValue
          /\ stackAlive' = IF tasks[t].root THEN FALSE ELSE stackAlive
     ELSE /\ tasks' = [tasks EXCEPT ![t].pc = "unwindL"]
          /\ UNCHANGED <<thenFut, thenValue, stackAlive>>
  /\ UNCHANGED <<n, throwAt, predReady, factoryCalls, calls, completed, threw,
                 syncState, syncResult, asyncFut, asyncValue,
                 stackResult, stackShared>>
  /\ UNCHANGED accelVars
  /\ UNCHANGED deviceVars
  /\ UNCHANGED futureVars
  /\ UNCHANGED copyVars
  /\ UNCHANGED buildVars

----------------------------------------------------------------------------
(* The host specifications                                                *)

\* no call of max_shape() is under way
DeviceIdle ==
  /\ activeDevice = 0
  /\ msPc = "idle"
  /\ msEntryDevice = 0
  /\ msGpu = 0
  /\ msCurrent = 0
  /\ msBlockDimX = 0
  /\ msThreads = 0
  /\ msResult = <<0, 0>>

\* no future was discarded, no callback has run
FutureIdle ==
  /\ discarded = {}
  /\ gStateRefs = 0
  /\ notifyStatus = "none"

\* a build without NDEBUG: assert() checks its condition
DebugBuild == ndebug = FALSE

\* no call of copy is under way
CopyIdle ==
  /\ cpFirst = 0
  /\ cpLast = 0
  /\ cpResult = 0
  /\ cpMem = << >>
  /\ cpWrites = << >>
  /\ cpPc = "idle"
  /\ cpRet = 0
  /\ cpSeqMem = << >>
  /\ cpSeqRet = << >>

\* no accelerator call is being made
AccelIdle ==
  /\ gEntry = "none"
  /\ gOuter = FALSE
  /\ gInner = FALSE
  /\ gShape = <<0, 0>>
  /\ hostPc = "idle"
  /\ agentPc = << >>
  /\ innerObj = << >>
  /\ innerCtor = << >>
  /\ innerDtor = << >>
  /\ outerObj = "none"
  /\ outerCtor = 0
  /\ outerRef = << >>
  /\ gFut = "none"
  /\ promise = "none"
  /\ flatN = 0
  /\ maxShape = <<0, 0>>
  /\ flatCalls = << >>
  /\ gPlain = FALSE
  /\ hwLimit = <<0, 0>>
  /\ gCalls = << >>
  /\ barriers = << >>
  /\ flatRef = << >>

\* the state before any host bulk call, for agent count k, f throwing at thr
HostStart(k, thr) ==
  /\ n = k
  /\ throwAt = thr
  /\ factoryCalls = [e \in Executors |-> [rf |-> 0, sf |-> 0]]
  /\ calls = [e \in Executors |-> [i \in Indices |-> 0]]
  /\ completed = [e \in Executors |-> 0]
  /\ threw = [e \in Executors |-> {}]
  /\ syncState = "idle"
  /\ syncResult = << >>
  /\ asyncFut = "none"
  /\ asyncValue = << >>
  /\ thenFut = "none"
  /\ thenValue = << >>
  /\ tasks = << >>
  /\ stackAlive = FALSE
  /\ stackResult = << >>
  /\ stackShared = 0

\* f returns normally at every index
Init ==
  /\ \E k \in 0 .. MaxN : HostStart(k, {})
  /\ predReady \in BOOLEAN
  /\ AccelIdle
  /\ DeviceIdle
  /\ FutureIdle
  /\ DebugBuild
  /\ CopyIdle

\* f throws at the indices of throwAt
InitThrow ==
  /\ \E k \in 0 .. MaxNThrow : \E thr \in SUBSET (0 .. (k - 1)) : HostStart(k, thr)
  /\ predReady \in BOOLEAN
  /\ AccelIdle
  /\ DeviceIdle
  /\ FutureIdle
  /\ DebugBuild
  /\ CopyIdle

Next ==
  \/ BulkExecute
  \/ BulkAsyncExecute
  \/ AsyncRun
  \/ BulkThenExecute
  \/ PredecessorReady
  \/ ContinuationStart
  \/ \E t \in 1 .. Len(tasks) : SpawnLeft(t)
  \/ \E t \in 1 .. Len(tasks) : SpawnRight(t)
  \/ \E t \in 1 .. Len(tasks) : InvokeBegin(t)
  \/ \E t \in 1 .. Len(tasks) : InvokeEnd(t)
  \/ \E t \in 1 .. Len(tasks) : JoinLeft(t)
  \/ \E t \in 1 .. Len(tasks) : JoinRight(t)

Spec == Init /\ [][Next]_vars

SpecThrow == InitThrow /\ [][Next]_vars

\* bulk_then_execute alone: the predecessor, the continuation and the tasks it
\* spawns, each std::async task on a thread of its own
NextThen ==
  \/ BulkThenExecute
  \/ PredecessorReady
  \/ ContinuationStart
  \/ \E t \in 1 .. Len(tasks) : SpawnLeft(t)
  \/ \E t \in 1 .. Len(tasks) : SpawnRight(t)
  \/ \E t \in 1 .. Len(tasks) : InvokeBegin(t)
  \/ \E t \in 1 .. Len(tasks) : InvokeEnd(t)
  \/ \E t \in 1 .. Len(tasks) : JoinLeft(t)
  \/ \E t \in 1 .. Len(tasks) : JoinRight(t)

\* the predecessor becomes ready, every thread that can run does run and f
\* returns: the system does not stop while one of its steps is possible
SpecThenFair == Init /\ [][NextThen]_vars /\ WF_vars(NextThen)

----------------------------------------------------------------------------
(* cuda::grid_executor: launch, shared-argument wrapper, completion       *)

\* every index <<blockIdx.x, threadIdx.x>> of a launch of shape sh
AgentsOf(sh) == (0 .. (sh[1] - 1)) \X (0 .. (sh[2] - 1))

\* the agents of outer group o
GroupOf(o) == {a \in DOMAIN agentPc : a[1] = o}

\* mutant of Designated: the last agent of the group is the designated one
DesignatedLast(a) == a[2] = gShape[2] - 1

\* if(idx[1] == 0): the agent that constructs and destroys inner_param
Designated(a) == a[2] = 0

\* mutant of HasInnerParam: the wrapper always has the inner level
HasInnerParamAlways == TRUE

\* the wrapper function_with_shared_arguments in use has an inner_param, and
\* with it the two __syncthreads()
HasInnerParam == gInner

\* mutant of Barrier1Open: the first __syncthreads() is missing
Barrier1Missing(o) == TRUE

\* the first __syncthreads(): every agent of the group has arrived
Barrier1Open(o) == \A b \in GroupOf(o) : agentPc[b] \notin {"idle", "start"}

\* mutant of Barrier2Open: the second barrier spans the whole grid
Barrier2GridWide(o) == \A b \in DOMAIN agentPc : agentPc[b] \in {"b2", "done"}

\* the second __syncthreads(): every agent of the group has returned from f_
Barrier2Open(o) == \A b \in GroupOf(o) : agentPc[b] \in {"b2", "done"}

\* the heap object make_unique made, as outer_ptr_ names it
OuterPtr == 1

\* the outer object the wrapper hands to f_ in agent a: *outer_ptr_
OuterArg(a) == OuterPtr

\* mutant of LaunchConfig: the two extents change places
LaunchConfigSwapped(sh) == <<sh[2], sh[1]>>

\* launch(): <<grid_dim.x, block_dim.x>> for the shape sh; the outer extent is
\* the grid's, the inner extent the block's
LaunchConfig(sh) == <<sh[1], sh[2]>>

\* this_index_1d in the hardware thread <<blockIdx.x, threadIdx.x>>
ThisIndex(thread) == <<thread[1], thread[2]>>

\* checked_launch_kernel_on_device accepts the configuration: neither extent is
\* zero or above what the device allows
LaunchOk(cfg, hw) ==
  /\ cfg[1] >= 1 /\ cfg[1] <= hw[1]
  /\ cfg[2] >= 1 /\ cfg[2] <= hw[2]

\* unsigned int and size_t arithmetic wraps at these
UIntModulus == 2 ^ UIntBits
SizeModulus == 2 ^ SizeBits

\* flattened_grid_executor_functor: flat_idx = get<0>(idx) * get<1>(partitioning_)
\* + get<1>(idx), in unsigned int
FlatIdx(a, partitioning) == (a[1] * partitioning[2] + a[2]) % UIntModulus

\* if(flat_idx < shape_): the functor invokes f_
FlatInvokes(a, partitioning, shape) == FlatIdx(a, partitioning) < shape

\* outer_shared_arg_ptr, the unique_ptr local to bulk_invoke_with_shared_args,
\* goes out of scope still owning the outer object (the wrapper was given
\* .get()): the object is destroyed and deallocated there and then
DeleterRuns == IF outerObj = "alive" THEN "destroyed" ELSE outerObj

\* the calling thread leaves the bulk call by an exception: the stack is
\* unwound through bulk_*_with_shared_args, where a unique_ptr still owning the
\* outer object (bulk_invoke keeps it, bulk_async released it) destroys it
UnwindOuter ==
  IF gEntry \in {"invoke", "invokeDevice"} THEN DeleterRuns ELSE outerObj

\* bulk_async / bulk_invoke(f, shape, shared_arg_tuple) up to the launch:
\* bulk_*_with_shared_args makes the outer object when one was passed and wraps f
GridCall ==
  /\ hostPc = "call"
  /\ gEntry \in {"async", "invoke", "invokeDevice"}
  /\ ~ gPlain
  /\ IF gOuter
     THEN outerObj' = "alive" /\ outerCtor' = outerCtor + 1
     ELSE UNCHANGED <<outerObj, outerCtor>>
  /\ hostPc' = "launch"
  /\ UNCHANGED <<gEntry, gOuter, gInner, gShape, agentPc, innerObj, innerCtor,
                 innerDtor, outerRef, gFut, promise, flatN, maxShape, flatCalls>>
  /\ UNCHANGED <<gPlain, hwLimit, gCalls, barriers, flatRef>>
  /\ UNCHANGED hostVars
  /\ UNCHANGED deviceVars
  /\ UNCHANGED futureVars
  /\ UNCHANGED copyVars
  /\ UNCHANGED buildVars

\* launch(f, shape): the kernel is enqueued with grid = outer extent and
\* block = inner extent, or the launch is refused and an exception leaves the
\* call. bulk_async(f, shape) / bulk_invoke(f, shape) called directly begin here
HostLaunch ==
  /\ hostPc = (IF gPlain THEN "call" ELSE "launch")
  /\ IF LaunchOk(LaunchConfig(gShape), hwLimit)
     THEN /\ agentPc' = [a \in AgentsOf(LaunchConfig(gShape)) |-> "start"]
          /\ outerRef' = [a \in AgentsOf(LaunchConfig(gShape)) |-> 0]
          /\ gCalls' = [a \in AgentsOf(LaunchConfig(gShape)) |-> 0]
          /\ barriers' = [a \in AgentsOf(LaunchConfig(gShape)) |-> 0]
          /\ innerObj' = [o \in 0 .. (LaunchConfig(gShape)[1] - 1) |-> "raw"]
          /\ innerCtor' = [o \in 0 .. (LaunchConfig(gShape)[1] - 1) |-> 0]
          /\ innerDtor' = [o \in 0 .. (LaunchConfig(gShape)[1] - 1) |-> 0]
          /\ hostPc' = IF gEntry = "invokeDevice" THEN "sync" ELSE "addCallback"
          /\ UNCHANGED outerObj
     ELSE /\ hostPc' = "threw"
          /\ outerObj' = UnwindOuter
          /\ UNCHANGED <<agentPc, outerRef, innerObj, innerCtor, innerDtor,
                         gCalls, barriers>>
  /\ UNCHANGED <<gEntry, gOuter, gInner, gShape, outerCtor, gFut, promise,
                 flatN, maxShape, flatCalls, gPlain, hwLimit, flatRef>>
  /\ UNCHANGED hostVars
  /\ UNCHANGED deviceVars
  /\ UNCHANGED futureVars
  /\ UNCHANGED copyVars
  /\ UNCHANGED buildVars

\* mutant of FutureDtorReleases: destroying the future frees the shared state
FutureDtorFrees(refs) == 0

\* ~future() of the std::future<void> that bulk_async returned: it gives up its
\* reference to the shared state, which the heap promise made by bulk_async
\* still owns until grid_executor_notify deletes that promise
FutureDtorReleases(refs) == refs - 1

\* the rest of bulk_async: the promise is made and cudaStreamAddCallback hands it
\* to grid_executor_notify; the runtime may refuse, and throw_on_error throws.
\* bulk_async returns the future; bulk_invoke goes on to wait on it
HostAddCallback ==
  /\ hostPc = "addCallback"
  /\ \E ok \in BOOLEAN :
       IF ok
       THEN /\ gFut' = "pending"
            /\ promise' = "alive"
            /\ gStateRefs' = 2
            /\ hostPc' = IF gEntry = "invoke" THEN "waiting" ELSE "returned"
            /\ UNCHANGED outerObj
       ELSE /\ hostPc' = "threw"
            /\ promise' = "leaked"
            /\ gStateRefs' = FutureDtorReleases(2)
            /\ outerObj' = UnwindOuter
            /\ UNCHANGED gFut
  /\ UNCHANGED <<gEntry, gOuter, gInner, gShape, agentPc, innerObj, innerCtor,
                 innerDtor, outerCtor, outerRef, flatN, maxShape, flatCalls>>
  /\ UNCHANGED <<gPlain, hwLimit, gCalls, barriers, flatRef>>
  /\ UNCHANGED hostVars
  /\ UNCHANGED deviceVars
  /\ UNCHANGED <<discarded, notifyStatus>>
  /\ UNCHANGED copyVars
  /\ UNCHANGED buildVars

\* mutant of KernelFinished: the callback is not ordered behind the kernel
KernelFinishedAnytime == TRUE

\* the stream has finished the kernel that launch() enqueued before the callback
KernelFinished == \A a \in DOMAIN agentPc : agentPc[a] = "done"

\* the cudaError_t the stream hands to a callback: cudaSuccess, or the error of
\* the work that preceded it in the stream
CallbackStatuses == {"success", "error"}

\* mutant of FutureValue: an error status is stored in the future
FutureValueFromStatus(status) == IF status = "success" THEN "ready" ELSE "failed"

\* what grid_executor_notify puts into the shared state: promise->set_value(),
\* the parameter status is not read
FutureValue(status) == "ready"

\* grid_executor_notify: the stream runs the callback once the kernel enqueued
\* before it has finished; it takes the promise into a unique_ptr and calls
\* set_value() on it, whatever status it was given
Notify ==
  /\ promise = "alive"
  /\ gFut = "pending"
  /\ KernelFinished
  /\ \E status \in CallbackStatuses :
       /\ notifyStatus' = status
       /\ IF gStateRefs >= 1
          THEN /\ gFut' = FutureValue(status)
               /\ promise' = "fulfilled"
          ELSE /\ promise' = "broken"
               /\ UNCHANGED gFut
  /\ UNCHANGED <<gEntry, gOuter, gInner, gShape, hostPc, agentPc, innerObj,
                 innerCtor, innerDtor, outerObj, outerCtor, outerRef, flatN,
                 maxShape, flatCalls>>
  /\ UNCHANGED <<gPlain, hwLimit, gCalls, barriers, flatRef>>
  /\ UNCHANGED hostVars
  /\ UNCHANGED deviceVars
  /\ UNCHANGED <<discarded, gStateRefs>>
  /\ UNCHANGED copyVars
  /\ UNCHANGED buildVars

\* grid_executor_notify returns: its unique_ptr deletes the promise
NotifyExit ==
  /\ promise = "fulfilled"
  /\ promise' = "released"
  /\ gStateRefs' = gStateRefs - 1
  /\ UNCHANGED <<gEntry, gOuter, gInner, gShape, hostPc, agentPc, innerObj,
                 innerCtor, innerDtor, outerObj, outerCtor, outerRef, gFut, flatN,
                 maxShape, flatCalls>>
  /\ UNCHANGED <<gPlain, hwLimit, gCalls, barriers, flatRef>>
  /\ UNCHANGED hostVars
  /\ UNCHANGED deviceVars
  /\ UNCHANGED <<discarded, notifyStatus>>
  /\ UNCHANGED copyVars
  /\ UNCHANGED buildVars

\* mutant of WaitReturns: wait() does not block
WaitReturnsAtOnce == TRUE

\* std::future<void>::wait() returns once the future is ready
WaitReturns == gFut = "ready"

\* bulk_invoke: bulk_async(f, shape).wait() returns, the temporary future is
\* destroyed, then the call returns and the unique_ptr of
\* bulk_invoke_with_shared_args destroys the outer object
HostWaitReturn ==
  /\ hostPc = "waiting"
  /\ WaitReturns
  /\ hostPc' = "returned"
  /\ outerObj' = DeleterRuns
  /\ gStateRefs' = FutureDtorReleases(gStateRefs)
  /\ UNCHANGED <<gEntry, gOuter, gInner, gShape, agentPc, innerObj, innerCtor,
                 innerDtor, outerCtor, outerRef, gFut, promise, flatN, maxShape,
                 flatCalls>>
  /\ UNCHANGED <<gPlain, hwLimit, gCalls, barriers, flatRef>>
  /\ UNCHANGED hostVars
  /\ UNCHANGED deviceVars
  /\ UNCHANGED <<discarded, notifyStatus>>
  /\ UNCHANGED copyVars
  /\ UNCHANGED buildVars

\* bulk_invoke compiled for the device (__CUDA_ARCH__): after launch(f, shape),
\* cudaDeviceSynchronize() returns once the device has finished the kernel, then
\* the call returns and the unique_ptr of bulk_invoke_with_shared_args destroys
\* the outer object; or it reports an error and throw_on_error throws, which
\* unwinds through that unique_ptr
DeviceSynchronize ==
  /\ hostPc = "sync"
  /\ \E ok \in BOOLEAN :
       IF ok
       THEN /\ KernelFinished
            /\ hostPc' = "returned"
            /\ outerObj' = DeleterRuns
       ELSE /\ hostPc' = "threw"
            /\ outerObj' = UnwindOuter
  /\ UNCHANGED <<gEntry, gOuter, gInner, gShape, agentPc, innerObj, innerCtor,
                 innerDtor, outerCtor, outerRef, gFut, promise, flatN, maxShape,
                 flatCalls>>
  /\ UNCHANGED <<gPlain, hwLimit, gCalls, barriers, flatRef>>
  /\ UNCHANGED hostVars
  /\ UNCHANGED deviceVars
  /\ UNCHANGED futureVars
  /\ UNCHANGED copyVars
  /\ UNCHANGED buildVars

\* the wrapper up to the first __syncthreads(): the designated agent constructs
\* inner_param from inner_shared_init_
Arrive1(a) ==
  /\ HasInnerParam
  /\ agentPc[a] = "start"
  /\ agentPc' = [agentPc EXCEPT ![a] = "b1"]
  /\ IF Designated(a)
     THEN /\ innerObj' = [innerObj EXCEPT ![a[1]] = "alive"]
          /\ innerCtor' = [innerCtor EXCEPT ![a[1]] = @ + 1]
     ELSE UNCHANGED <<innerObj, innerCtor>>
  /\ UNCHANGED <<gEntry, gOuter, gInner, gShape, hostPc, innerDtor, outerObj,
                 outerCtor, outerRef, gFut, promise, flatN, maxShape, flatCalls>>
  /\ UNCHANGED <<gPlain, hwLimit, gCalls, barriers, flatRef>>
  /\ UNCHANGED hostVars
  /\ UNCHANGED deviceVars
  /\ UNCHANGED futureVars
  /\ UNCHANGED copyVars
  /\ UNCHANGED buildVars

\* mutant of FunctorShared: the functor forwards the inner element
FunctorSharedInner(shared_params) == shared_params[2]

\* flattened_grid_executor_functor: get<0>(shared_params), what it hands to the
\* user function along with flat_idx
FunctorShared(shared_params) == shared_params[1]

\* the tuple shared_params the wrapper in use hands to f_ in agent a:
\* <<outer, inner>>, 0 standing for ignore and for an inner object
SharedParams(a) == <<IF gOuter THEN OuterArg(a) ELSE 0, 0>>

\* what is found where a destroyed and deallocated outer object was
Garbage == 2

\* what *ptr is for an agent: the object ptr names while it is alive (or
\* nothing, for ignore). Once the object was destroyed the pointer dangles and
\* the behaviour is undefined: the storage may still hold the object or
\* anything else
Deref(ptr) == IF ptr # 0 /\ outerObj = "destroyed" THEN {ptr, Garbage} ELSE {ptr}

\* the agent leaves the first __syncthreads() (when the wrapper has one) and
\* calls f_(idx, shared_params); under the flattening adapter f_ is
\* flattened_grid_executor_functor, which invokes the user function on flat_idx
BeginF(a) ==
  /\ IF HasInnerParam
     THEN agentPc[a] = "b1" /\ Barrier1Open(a[1])
     ELSE agentPc[a] = "start"
  /\ agentPc' = [agentPc EXCEPT ![a] = "inF"]
  /\ \E seen \in Deref(SharedParams(a)[1]) :
       /\ outerRef' = [outerRef EXCEPT ![a] = seen]
       /\ flatRef' = IF /\ gEntry = "flat"
                        /\ gOuter
                        /\ FlatInvokes(ThisIndex(a), gShape, flatN)
                     THEN [flatRef EXCEPT ![FlatIdx(ThisIndex(a), gShape)] =
                             FunctorShared(<<seen, SharedParams(a)[2]>>)]
                     ELSE flatRef
  /\ gCalls' = [gCalls EXCEPT ![ThisIndex(a)] = @ + 1]
  /\ barriers' = [barriers EXCEPT ![a] = IF HasInnerParam THEN @ + 1 ELSE @]
  /\ flatCalls' = IF gEntry = "flat" /\ FlatInvokes(ThisIndex(a), gShape, flatN)
                  THEN [flatCalls EXCEPT ![FlatIdx(ThisIndex(a), gShape)] = @ + 1]
                  ELSE flatCalls
  /\ UNCHANGED <<gEntry, gOuter, gInner, gShape, hostPc, innerObj, innerCtor,
                 innerDtor, outerObj, outerCtor, gFut, promise, flatN, maxShape>>
  /\ UNCHANGED <<gPlain, hwLimit>>
  /\ UNCHANGED hostVars
  /\ UNCHANGED deviceVars
  /\ UNCHANGED futureVars
  /\ UNCHANGED copyVars
  /\ UNCHANGED buildVars

\* f_ returns; the agent arrives at the second __syncthreads() when the wrapper
\* has one, and is finished otherwise
EndF(a) ==
  /\ agentPc[a] = "inF"
  /\ agentPc' = [agentPc EXCEPT ![a] = IF HasInnerParam THEN "b2" ELSE "done"]
  /\ UNCHANGED <<gEntry, gOuter, gInner, gShape, hostPc, innerObj, innerCtor,
                 innerDtor, outerObj, outerCtor, outerRef, gFut, promise, flatN,
                 maxShape, flatCalls>>
  /\ UNCHANGED <<gPlain, hwLimit, gCalls, barriers, flatRef>>
  /\ UNCHANGED hostVars
  /\ UNCHANGED deviceVars
  /\ UNCHANGED futureVars
  /\ UNCHANGED copyVars
  /\ UNCHANGED buildVars

\* the agent leaves the second __syncthreads(); the designated agent destroys
\* inner_param
Leave(a) ==
  /\ HasInnerParam
  /\ agentPc[a] = "b2"
  /\ Barrier2Open(a[1])
  /\ agentPc' = [agentPc EXCEPT ![a] = "done"]
  /\ barriers' = [barriers EXCEPT ![a] = @ + 1]
  /\ IF Designated(a)
     THEN /\ innerObj' = [innerObj EXCEPT ![a[1]] = "destroyed"]
          /\ innerDtor' = [innerDtor EXCEPT ![a[1]] = @ + 1]
     ELSE UNCHANGED <<innerObj, innerDtor>>
  /\ UNCHANGED <<gEntry, gOuter, gInner, gShape, hostPc, innerCtor, outerObj,
                 outerCtor, outerRef, gFut, promise, flatN, maxShape, flatCalls>>
  /\ UNCHANGED <<gPlain, hwLimit, gCalls, flatRef>>
  /\ UNCHANGED hostVars
  /\ UNCHANGED deviceVars
  /\ UNCHANGED futureVars
  /\ UNCHANGED copyVars
  /\ UNCHANGED buildVars

\* no host reference executor is in use
HostIdle ==
  /\ HostStart(0, {})
  /\ predReady = FALSE

\* the state before an accelerator call
AccelStart ==
  /\ hostPc = "call"
  /\ agentPc = << >>
  /\ innerObj = << >>
  /\ innerCtor = << >>
  /\ innerDtor = << >>
  /\ outerObj = "none"
  /\ outerCtor = 0
  /\ outerRef = << >>
  /\ gFut = "none"
  /\ promise = "none"
  /\ gCalls = << >>
  /\ barriers = << >>

\* a direct bulk_async or bulk_invoke on grid_executor, the latter from the host
\* or from device code, with any of the four combinations of shared arguments
InitGrid ==
  /\ HostIdle
  /\ AccelStart
  /\ DeviceIdle
  /\ FutureIdle
  /\ DebugBuild
  /\ CopyIdle
  /\ gEntry \in {"async", "invoke", "invokeDevice"}
  /\ gOuter \in BOOLEAN
  /\ gInner \in BOOLEAN
  /\ gPlain \in (IF gOuter \/ gInner THEN {FALSE} ELSE BOOLEAN)
  /\ gShape \in {sh \in (1 .. MaxOuter) \X (1 .. MaxInner) :
                   sh[1] * sh[2] <= MaxAgents}
  /\ hwLimit \in (1 .. MaxHwOuter) \X (1 .. MaxHwInner)
  /\ flatN = 0
  /\ maxShape = <<0, 0>>
  /\ flatCalls = << >>
  /\ flatRef = << >>

NextGrid ==
  \/ GridCall
  \/ HostLaunch
  \/ HostAddCallback
  \/ Notify
  \/ NotifyExit
  \/ HostWaitReturn
  \/ DeviceSynchronize
  \/ \E a \in DOMAIN agentPc : Arrive1(a)
  \/ \E a \in DOMAIN agentPc : BeginF(a)
  \/ \E a \in DOMAIN agentPc : EndF(a)
  \/ \E a \in DOMAIN agentPc : Leave(a)

SpecGrid == InitGrid /\ [][NextGrid]_vars

----------------------------------------------------------------------------
(* a caller that lets go of the future a bulk call returned               *)

\* the caller destroys the future of bulk_async_execute or bulk_then_execute any
\* time after the call returned it. The work is on threads of its own (AsyncRun,
\* the tasks): the destructor of a future made by std::async does not end its
\* task, it blocks the caller until the task has run
DiscardHost(e) ==
  /\ e \notin discarded
  /\ IF e = "async" THEN asyncFut # "none" ELSE thenFut # "none"
  /\ discarded' = discarded \cup {e}
  /\ UNCHANGED <<gStateRefs, notifyStatus>>
  /\ UNCHANGED hostVars
  /\ UNCHANGED accelVars
  /\ UNCHANGED deviceVars
  /\ UNCHANGED copyVars
  /\ UNCHANGED buildVars

\* the caller destroys the future that grid_executor's bulk_async returned
DiscardGrid ==
  /\ gEntry = "async"
  /\ hostPc = "returned"
  /\ "grid" \notin discarded
  /\ discarded' = discarded \cup {"grid"}
  /\ gStateRefs' = FutureDtorReleases(gStateRefs)
  /\ UNCHANGED notifyStatus
  /\ UNCHANGED hostVars
  /\ UNCHANGED accelVars
  /\ UNCHANGED deviceVars
  /\ UNCHANGED copyVars
  /\ UNCHANGED buildVars

\* either the two asynchronous host bulk calls or a bulk_async on grid_executor
InitDiscard ==
  \/ Init
  \/ InitGrid /\ gEntry = "async"

NextDiscard ==
  \/ gEntry = "none" /\ BulkAsyncExecute
  \/ gEntry = "none" /\ AsyncRun
  \/ gEntry = "none" /\ BulkThenExecute
  \/ gEntry = "none" /\ PredecessorReady
  \/ gEntry = "none" /\ ContinuationStart
  \/ \E t \in 1 .. Len(tasks) : SpawnLeft(t)
  \/ \E t \in 1 .. Len(tasks) : SpawnRight(t)
  \/ \E t \in 1 .. Len(tasks) : InvokeBegin(t)
  \/ \E t \in 1 .. Len(tasks) : InvokeEnd(t)
  \/ \E t \in 1 .. Len(tasks) : JoinLeft(t)
  \/ \E t \in 1 .. Len(tasks) : JoinRight(t)
  \/ gEntry = "none" /\ DiscardHost("async")
  \/ gEntry = "none" /\ DiscardHost("then")
  \/ GridCall
  \/ HostLaunch
  \/ HostAddCallback
  \/ Notify
  \/ NotifyExit
  \/ \E a \in DOMAIN agentPc : Arrive1(a)
  \/ \E a \in DOMAIN agentPc : BeginF(a)
  \/ \E a \in DOMAIN agentPc : EndF(a)
  \/ \E a \in DOMAIN agentPc : Leave(a)
  \/ DiscardGrid

SpecDiscard == InitDiscard /\ [][NextDiscard]_vars

----------------------------------------------------------------------------
(* grid_executor::max_shape, in host code                                 *)

Devices == 0 .. MaxDevice

\* if(current_device != gpu().native_handle())
SwitchesDevice == msCurrent # msGpu

\* cudaGetDevice(&current_device)
MaxShapeGetDevice ==
  /\ msPc = "getDevice"
  /\ \E ok \in BOOLEAN :
       IF ok
       THEN /\ msCurrent' = activeDevice
            /\ msPc' = IF activeDevice # msGpu THEN "setDevice" ELSE "getAttribute"
       ELSE /\ msPc' = "threw"
            /\ UNCHANGED msCurrent
  /\ UNCHANGED <<activeDevice, msEntryDevice, msGpu, msBlockDimX, msThreads,
                 msResult>>
  /\ UNCHANGED <<hostVars, accelVars, futureVars, copyVars, buildVars>>

\* cudaSetDevice(gpu().native_handle()), when the executor's device is not the
\* current one
MaxShapeSetDevice ==
  /\ msPc = "setDevice"
  /\ \E ok \in BOOLEAN :
       IF ok
       THEN /\ activeDevice' = msGpu
            /\ msPc' = "getAttribute"
       ELSE /\ msPc' = "threw"
            /\ UNCHANGED activeDevice
  /\ UNCHANGED <<msEntryDevice, msGpu, msCurrent, msBlockDimX, msThreads,
                 msResult>>
  /\ UNCHANGED <<hostVars, accelVars, futureVars, copyVars, buildVars>>

\* cudaDeviceGetAttribute(&max_block_dimension_x, cudaDevAttrMaxBlockDimX, gpu)
MaxShapeGetAttribute ==
  /\ msPc = "getAttribute"
  /\ \E ok \in BOOLEAN :
       IF ok
       THEN /\ msBlockDimX' \in 1 .. MaxHwOuter
            /\ msPc' = "funcAttributes"
            /\ UNCHANGED activeDevice
       ELSE /\ msPc' = "threw"
            /\ UNCHANGED <<activeDevice, msBlockDimX>>
  /\ UNCHANGED <<msEntryDevice, msGpu, msCurrent, msThreads, msResult>>
  /\ UNCHANGED <<hostVars, accelVars, futureVars, copyVars, buildVars>>

\* result = shape_type{max_block_dimension_x, attr.maxThreadsPerBlock}
MaxShapeResult(threads) == <<msBlockDimX, threads>>

\* cudaFuncGetAttributes(&attr, fun_ptr); when the device was not switched the
\* result is built and max_shape() returns
MaxShapeFuncAttributes ==
  /\ msPc = "funcAttributes"
  /\ \E ok \in BOOLEAN :
       IF ok
       THEN /\ msThreads' \in 1 .. MaxHwInner
            /\ IF SwitchesDevice
               THEN msPc' = "restore" /\ UNCHANGED msResult
               ELSE msPc' = "returned" /\ msResult' = MaxShapeResult(msThreads')
            /\ UNCHANGED activeDevice
       ELSE /\ msPc' = "threw"
            /\ UNCHANGED <<activeDevice, msThreads, msResult>>
  /\ UNCHANGED <<msEntryDevice, msGpu, msCurrent, msBlockDimX>>
  /\ UNCHANGED <<hostVars, accelVars, futureVars, copyVars, buildVars>>

\* cudaSetDevice(current_device), then the result is built and max_shape()
\* returns
MaxShapeRestore ==
  /\ msPc = "restore"
  /\ \E ok \in BOOLEAN :
       IF ok
       THEN /\ activeDevice' = msCurrent
            /\ msPc' = "returned"
            /\ msResult' = MaxShapeResult(msThreads)
       ELSE /\ msPc' = "threw"
            /\ UNCHANGED <<activeDevice, msResult>>
  /\ UNCHANGED <<msEntryDevice, msGpu, msCurrent, msBlockDimX, msThreads>>
  /\ UNCHANGED <<hostVars, accelVars, futureVars, copyVars, buildVars>>

\* max_shape(f) is called on an executor of any device while any device is
\* the current one
InitMaxShape ==
  /\ HostIdle
  /\ AccelIdle
  /\ FutureIdle
  /\ DebugBuild
  /\ CopyIdle
  /\ activeDevice \in Devices
  /\ msGpu \in Devices
  /\ msEntryDevice = activeDevice
  /\ msPc = "getDevice"
  /\ msCurrent = 0
  /\ msBlockDimX = 0
  /\ msThreads = 0
  /\ msResult = <<0, 0>>

NextMaxShape ==
  \/ MaxShapeGetDevice
  \/ MaxShapeSetDevice
  \/ MaxShapeGetAttribute
  \/ MaxShapeFuncAttributes
  \/ MaxShapeRestore

SpecMaxShape == InitMaxShape /\ [][NextMaxShape]_vars

----------------------------------------------------------------------------
(* flattened_executor<cuda::grid_executor>                                *)

\* partition(f, shape): inner_size = get<1>(max_shape); outer_size =
\* (shape + inner_size - 1) / inner_size, computed in size_t and stored in the
\* unsigned int outer_shape_type
PartitionOuter(shape, mx) ==
  ((((shape + mx[2] - 1) % SizeModulus) \div mx[2]) % UIntModulus)

\* assert(outer_size <= get<0>(max_shape))
PartitionFits(shape, mx) == PartitionOuter(shape, mx) <= mx[1]

\* the assert of partition() lets the call go on: always in a build with
\* NDEBUG, where it expands to nothing
AssertPasses(shape, mx) == ndebug \/ PartitionFits(shape, mx)

\* partition_type{outer_size, inner_size}
Partition(shape, mx) == <<PartitionOuter(shape, mx), mx[2]>>

\* flattened_executor::bulk_async(f, shape [, shared_arg]) from the return of
\* the max_shape(f) that partition() calls up to the launch of the base
\* executor. An exception of max_shape leaves bulk_async before anything is
\* made. Otherwise the space is partitioned (a failed assert ends the
\* program); a shared_arg goes to the base executor as its outer shared
\* argument, the inner one being ignore, and bulk_async_with_shared_args makes
\* the outer object
FlatBulkAsync ==
  /\ hostPc = "call"
  /\ gEntry = "flat"
  /\ msPc \in {"returned", "threw"}
  /\ IF msPc = "threw"
     THEN /\ hostPc' = "threw"
          /\ UNCHANGED <<gShape, outerObj, outerCtor, maxShape>>
     ELSE /\ maxShape' = msResult
          /\ IF AssertPasses(flatN, msResult)
             THEN /\ gShape' = Partition(flatN, msResult)
                  /\ hostPc' = "launch"
                  /\ IF gOuter
                     THEN outerObj' = "alive" /\ outerCtor' = outerCtor + 1
                     ELSE UNCHANGED <<outerObj, outerCtor>>
             ELSE /\ hostPc' = "aborted"
                  /\ UNCHANGED <<gShape, outerObj, outerCtor>>
  /\ UNCHANGED <<gEntry, gOuter, gInner, agentPc, innerObj, innerCtor,
                 innerDtor, outerRef, gFut, promise, flatN, flatCalls>>
  /\ UNCHANGED <<gPlain, hwLimit, gCalls, barriers, flatRef>>
  /\ UNCHANGED hostVars
  /\ UNCHANGED deviceVars
  /\ UNCHANGED futureVars
  /\ UNCHANGED copyVars
  /\ UNCHANGED buildVars

\* the limits the device puts on a launch, as far as the model follows the
\* agents of a launch
FlatDeviceLimits ==
  {h \in (1 .. MaxAgents) \X (1 .. MaxHwInner) : h[1] * h[2] <= MaxAgents}

\* a bulk_async on the flattening adapter, for any flat extent of size_t, with
\* or without a shared argument, in a build with or without NDEBUG, on an
\* executor of any device while any device is the current one; partition()
\* is about to call max_shape
InitFlat ==
  /\ HostIdle
  /\ AccelStart
  /\ FutureIdle
  /\ CopyIdle
  /\ ndebug \in BOOLEAN
  /\ activeDevice \in Devices
  /\ msGpu \in Devices
  /\ msEntryDevice = activeDevice
  /\ msPc = "getDevice"
  /\ msCurrent = 0
  /\ msBlockDimX = 0
  /\ msThreads = 0
  /\ msResult = <<0, 0>>
  /\ gEntry = "flat"
  /\ gOuter \in BOOLEAN
  /\ gInner = FALSE
  /\ gShape = <<0, 0>>
  /\ flatN \in 0 .. (SizeModulus - 1)
  /\ maxShape = <<0, 0>>
  /\ flatCalls = [i \in 0 .. (UIntModulus - 1) |-> 0]
  /\ flatRef = [i \in 0 .. (UIntModulus - 1) |-> 0]
  /\ gPlain = FALSE
  /\ hwLimit \in FlatDeviceLimits

NextFlat ==
  \/ MaxShapeGetDevice
  \/ MaxShapeSetDevice
  \/ MaxShapeGetAttribute
  \/ MaxShapeFuncAttributes
  \/ MaxShapeRestore
  \/ FlatBulkAsync
  \/ HostLaunch
  \/ HostAddCallback
  \/ Notify
  \/ NotifyExit
  \/ \E a \in DOMAIN agentPc : BeginF(a)
  \/ \E a \in DOMAIN agentPc : EndF(a)

SpecFlat == InitFlat /\ [][NextFlat]_vars

----------------------------------------------------------------------------
(* detail::copy: the parallel and the sequential overload                 *)

\* the addresses of the array both ranges lie in: room for a source range, a
\* destination range and the gaps before them
CopyAddrs == 0 .. (2 * MaxCopyLen + 2 * MaxCopyGap - 1)

\* the array before copy is called: every element differs from the others
CopyMem0 == [a \in CopyAddrs |-> a + 1]

\* the ranks of the agents agency::bulk_invoke(policy(n), ...) creates
CopyAgents(count) == 0 .. (count - 1)

\* the sequential overload: for(; first != last; ++first, ++result)
\* *result = *first; return result
RECURSIVE SeqCopy(_, _, _, _)
SeqCopy(mem, first, last, result) ==
  IF first = last
  THEN [mem |-> mem, ret |-> result]
  ELSE SeqCopy([mem EXCEPT ![result] = mem[first]], first + 1, last, result + 1)

\* what the parallel overload returns: auto n = last - first; return last + n
ParCopyReturn(first, last, result) == last + (last - first)

\* the parallel overload is entered: n = last - first, bulk_invoke creates the
\* agents
CopyCall ==
  /\ cpPc = "call"
  /\ cpPc' = "running"
  /\ cpWrites' = [i \in CopyAgents(cpLast - cpFirst) |-> 0]
  /\ UNCHANGED <<cpFirst, cpLast, cpResult, cpMem, cpRet, cpSeqMem, cpSeqRet>>
  /\ UNCHANGED <<hostVars, accelVars, deviceVars, futureVars, buildVars>>

\* copy_functor on the agent of rank i: result[i] = first[i]
CopyFunctor(i) ==
  /\ cpPc = "running"
  /\ cpWrites[i] = 0
  /\ cpMem' = [cpMem EXCEPT ![cpResult + i] = cpMem[cpFirst + i]]
  /\ cpWrites' = [cpWrites EXCEPT ![i] = @ + 1]
  /\ UNCHANGED <<cpFirst, cpLast, cpResult, cpPc, cpRet, cpSeqMem, cpSeqRet>>
  /\ UNCHANGED <<hostVars, accelVars, deviceVars, futureVars, buildVars>>

\* bulk_invoke returns when all its agents have, then copy returns
CopyReturn ==
  /\ cpPc = "running"
  /\ \A i \in DOMAIN cpWrites : cpWrites[i] = 1
  /\ cpRet' = ParCopyReturn(cpFirst, cpLast, cpResult)
  /\ cpPc' = "returned"
  /\ UNCHANGED <<cpFirst, cpLast, cpResult, cpMem, cpWrites, cpSeqMem, cpSeqRet>>
  /\ UNCHANGED <<hostVars, accelVars, deviceVars, futureVars, buildVars>>

\* the sequential overload is called with the same arguments on the same array
CopySequential ==
  /\ cpPc # "idle"
  /\ cpSeqRet = << >>
  /\ LET s == SeqCopy(CopyMem0, cpFirst, cpLast, cpResult) IN
       /\ cpSeqMem' = s.mem
       /\ cpSeqRet' = <<s.ret>>
  /\ UNCHANGED <<cpFirst, cpLast, cpResult, cpMem, cpWrites, cpPc, cpRet>>
  /\ UNCHANGED <<hostVars, accelVars, deviceVars, futureVars, buildVars>>

\* copy(policy, first, last, result) on one array, the destination range
\* [result, result + n) inside the array and apart from [first, last)
InitCopy ==
  /\ HostIdle
  /\ AccelIdle
  /\ DeviceIdle
  /\ FutureIdle
  /\ DebugBuild
  /\ cpFirst \in 0 .. MaxCopyGap
  /\ \E len \in 0 .. MaxCopyLen :
       /\ cpLast = cpFirst + len
       /\ cpResult \in {r \in CopyAddrs :
                          \/ r >= cpFirst + len /\ r <= cpFirst + len + MaxCopyGap
                          \/ r + len <= cpFirst}
  /\ cpMem = CopyMem0
  /\ cpWrites = << >>
  /\ cpPc = "call"
  /\ cpRet = 0
  /\ cpSeqMem = << >>
  /\ cpSeqRet = << >>

NextCopy ==
  \/ CopyCall
  \/ \E i \in DOMAIN cpWrites : CopyFunctor(i)
  \/ CopyReturn
  \/ CopySequential

SpecCopy == InitCopy /\ [][NextCopy]_vars

----------------------------------------------------------------------------
(* Claims about the host reference executors                              *)

\* the bulk call of executor e has delivered its result
ExecutorEnded(e) ==
  CASE e = "sync" -> syncState = "returned"
    [] e = "async" -> asyncFut = "ready"
    [] e = "then" -> thenFut = "ready"

\* C1: each of the three host executors enters f at most once per index and
\* never on an index outside [0, n); when its bulk call has delivered its result,
\* f was invoked on every index of [0, n) exactly once, n times in all
C1_EveryIndexExactlyOnce ==
  \A e \in Executors :
    /\ \A i \in Indices : calls[e][i] <= 1 /\ (i >= n => calls[e][i] = 0)
    /\ ExecutorEnded(e) =>
         /\ \A i \in 0 .. (n - 1) : calls[e][i] = 1
         /\ completed[e] = n

C1_Witness ==
  /\ n >= 3
  /\ \A e \in Executors : ExecutorEnded(e)
  /\ \A e \in Executors : completed[e] = n

\* C2: whenever the future of bulk_then_execute is ready, all n invocations of f
\* have completed and every task of the fork-join has returned
C2_ReadyOnlyAfterAllInvocations ==
  thenFut = "ready" =>
    /\ completed["then"] = n
    /\ \A t \in 1 .. Len(tasks) : tasks[t].pc = "done"

C2_Witness ==
  /\ thenFut = "ready"
  /\ Len(tasks) >= 4
  /\ \E t \in 1 .. Len(tasks) : \E u \in 1 .. Len(tasks) :
       tasks[t].left = u /\ ~tasks[t].root /\ tasks[u].pc = "done"

\* C3: while the predecessor is not ready, bulk_then_execute has called no
\* factory, has not invoked f and its future is not ready
C3_NoWorkBeforePredecessor ==
  ~predReady =>
    /\ factoryCalls["then"] = [rf |-> 0, sf |-> 0]
    /\ \A i \in Indices : calls["then"][i] = 0
    /\ thenFut \notin {"ready", "failed"}

\* C4: a host bulk call that has delivered its result has called the result
\* factory exactly once and the shared factory exactly once
C4_FactoriesExactlyOnce ==
  \A e \in Executors :
    ExecutorEnded(e) => factoryCalls[e] = [rf |-> 1, sf |-> 1]

\* C5: when f threw at some index during bulk_then_execute, the returned future
\* ends failed, not holding a normal result
C5_ExceptionReachesFuture ==
  (thenFut \in {"ready", "failed"} /\ threw["then"] # {}) => thenFut = "failed"

\* C6: a task of the fork-join that has returned (normally or by an exception of
\* f) has no child still running, and result / shared_parameter exist on the
\* continuation's stack whenever a task has g(mid) running or yet to run
C6_StructuredForkJoin ==
  \A t \in 1 .. Len(tasks) :
    /\ tasks[t].pc \in {"done", "failed"} =>
         /\ tasks[t].left # 0 => tasks[tasks[t].left].pc \in {"done", "failed"}
         /\ tasks[t].right # 0 => tasks[tasks[t].right].pc \in {"done", "failed"}
    /\ tasks[t].pc \in {"spawnL", "spawnR", "invoke", "inF"} => stackAlive

C6_Witness ==
  /\ Len(tasks) >= 3
  /\ tasks[1].pc = "unwindR"
  /\ tasks[1].right # 0
  /\ tasks[tasks[1].right].pc = "inF"
  /\ stackAlive

\* C7: once all three executors have delivered their results for the same f, n
\* and factories, the three results are equal
C7_SameResults ==
  (\A e \in Executors : ExecutorEnded(e)) =>
    /\ syncResult = asyncValue
    /\ asyncValue = thenValue

C7_Witness ==
  /\ n >= 2
  /\ syncState = "returned" /\ asyncFut = "ready" /\ thenFut = "ready"
  /\ \A i \in 0 .. (n - 1) : thenValue[i] = i + n /\ syncResult[i] = i + n

----------------------------------------------------------------------------
(* Claims about the accelerator executor                                  *)

\* C9: with an inner shared argument, in every outer group inner_param is
\* constructed at most once and destroyed at most once, it is constructed (once)
\* and not yet destroyed whenever an agent of the group is inside f, its
\* destruction has begun only when every agent of the group has returned from f,
\* and a group whose agents have all finished saw exactly one construction and
\* one destruction
C9_InnerSharedOncePerGroup ==
  gInner =>
    \A o \in DOMAIN innerObj :
      /\ innerCtor[o] <= 1 /\ innerDtor[o] <= 1
      /\ \A a \in GroupOf(o) :
           agentPc[a] = "inF" => innerObj[o] = "alive" /\ innerCtor[o] = 1
      /\ (innerObj[o] = "destroyed" \/ innerDtor[o] > 0) =>
           \A a \in GroupOf(o) : agentPc[a] \in {"b2", "done"}
      /\ (\A a \in GroupOf(o) : agentPc[a] = "done") =>
           innerCtor[o] = 1 /\ innerDtor[o] = 1 /\ innerObj[o] = "destroyed"

C9_Witness ==
  /\ gInner
  /\ gShape = <<2, 2>>
  /\ DOMAIN agentPc # {}
  /\ \A a \in GroupOf(0) : agentPc[a] = "done"
  /\ innerDtor[0] = 1
  /\ \E a \in GroupOf(1) : agentPc[a] = "inF"

\* C10: with an outer shared argument, the outer object is constructed exactly
\* once before any agent runs, every agent that entered f was handed a reference
\* to that one object, and the object is not destroyed while an agent of the call
\* has not finished
C10_OuterSharedLifetime ==
  gOuter =>
    /\ outerCtor <= 1
    /\ DOMAIN agentPc # {} => outerCtor = 1
    /\ \A a \in DOMAIN agentPc :
         agentPc[a] \in {"inF", "b2", "done"} => outerRef[a] = OuterPtr
    /\ outerObj = "destroyed" => \A a \in DOMAIN agentPc : agentPc[a] = "done"

\* a bulk_invoke whose callback registration was refused has thrown: the outer
\* object is destroyed while an agent of the launched kernel is inside f and
\* another has yet to be handed the object
C10_DestroyedWhileRunning ==
  /\ gOuter
  /\ gEntry = "invoke"
  /\ hostPc = "threw"
  /\ promise = "leaked"
  /\ outerObj = "destroyed"
  /\ \E a \in DOMAIN agentPc : agentPc[a] = "inF"
  /\ \E a \in DOMAIN agentPc : agentPc[a] = "start"

\* an agent was handed what the dangling pointer led to
C10_DanglingUse ==
  /\ gOuter
  /\ outerObj = "destroyed"
  /\ \E a \in DOMAIN agentPc : outerRef[a] = Garbage

\* a bulk_invoke that returned normally destroyed the object after every agent
\* had finished
C10_DestroyedAfterReturn ==
  /\ gOuter
  /\ gEntry = "invoke"
  /\ gShape = <<2, 2>>
  /\ hostPc = "returned"
  /\ outerObj = "destroyed"
  /\ outerCtor = 1
  /\ \A a \in AgentsOf(gShape) : agentPc[a] = "done" /\ outerRef[a] = OuterPtr

----------------------------------------------------------------------------
(* Claims about the flattening adapter                                    *)

\* how often the adapter invoked the user function on flat index i
InvokedOn(i) == IF i \in DOMAIN flatCalls THEN flatCalls[i] ELSE 0

\* C8: once every agent of the launch the flattening adapter made has finished,
\* the user function was invoked exactly once on every flat index of [0, n) and
\* on no other index
C8_FlatIndicesExactlyOnce ==
  (/\ gEntry = "flat"
   /\ DOMAIN agentPc # {}
   /\ \A a \in DOMAIN agentPc : agentPc[a] = "done") =>
    \A i \in 0 .. (SizeModulus - 1) : InvokedOn(i) = (IF i < flatN THEN 1 ELSE 0)

\* C11: when a bulk_async call that was given an outer shared argument has
\* completed (its future is ready) and nothing of the call remains to be done,
\* the outer object made for the call has been destroyed
C11_OuterSharedEventuallyDestroyed ==
  (/\ gEntry = "async"
   /\ gOuter
   /\ gFut = "ready"
   /\ ~ ENABLED NextGrid) =>
    outerObj = "destroyed"

\* C12: in a bulk_async call whose callback was accepted, the future is ready
\* only when every agent of the launch has finished and the promise has been
\* fulfilled; the promise is deleted only after it was fulfilled; the callback
\* does not run again once it has run (the promise never goes back to the state
\* in which the callback may start); a ready future stays ready and a deleted
\* promise stays deleted; and when nothing of the call remains to be done the
\* future is ready and the promise deleted
C12_NotifyFulfillsOnce ==
  /\ [](/\ gFut = "ready" =>
             /\ \A a \in DOMAIN agentPc : agentPc[a] = "done"
             /\ promise \in {"fulfilled", "released"}
        /\ promise \in {"fulfilled", "released"} => gFut = "ready"
        /\ (gFut # "none" /\ ~ ENABLED NextGrid) =>
             gFut = "ready" /\ promise = "released")
  /\ [][/\ gFut = "ready" => gFut' = "ready"
        /\ promise = "fulfilled" => promise' \in {"fulfilled", "released"}
        /\ promise = "released" => promise' = "released"
        /\ (gFut = "pending" /\ gFut' = "ready") => promise = "alive"]_vars

C12_Witness ==
  /\ gEntry = "async"
  /\ gShape = <<2, 2>>
  /\ hostPc = "returned"
  /\ gFut = "ready"
  /\ promise = "released"
  /\ \A a \in AgentsOf(gShape) : agentPc[a] = "done"

\* C13: when bulk_invoke has returned to its caller, from host code or from
\* device code, every agent of the shape has finished; and bulk_async's last
\* step, which returns the future, is never held back by the state of the agents
C13_InvokeBlocksAsyncDoesNot ==
  /\ (gEntry \in {"invoke", "invokeDevice"} /\ hostPc = "returned") =>
       /\ DOMAIN agentPc = AgentsOf(gShape)
       /\ \A a \in AgentsOf(gShape) : agentPc[a] = "done"
  /\ (gEntry = "async" /\ hostPc = "addCallback") => ENABLED HostAddCallback
  /\ (gEntry = "async" /\ hostPc = "returned") => gFut # "none"

C13_Witness ==
  /\ gEntry = "invoke"
  /\ gShape = <<2, 2>>
  /\ hostPc = "returned"
  /\ \A a \in AgentsOf(gShape) : agentPc[a] = "done"

\* bulk_async has returned its future while no agent has finished
C13_AsyncReturnedEarly ==
  /\ gEntry = "async"
  /\ gShape = <<2, 2>>
  /\ hostPc = "returned"
  /\ gFut = "pending"
  /\ \A a \in AgentsOf(gShape) : agentPc[a] = "start"

----------------------------------------------------------------------------
(* Claims about max_shape                                                 *)

\* C14: when max_shape(f) has returned or has raised, the current device is the
\* one that was current when it was entered
C14_MaxShapeRestoresDevice ==
  msPc \in {"returned", "threw"} => activeDevice = msEntryDevice

----------------------------------------------------------------------------
(* Claims about partition() and the skipping of the flattening adapter    *)

\* ceil(x / d) in the integers, without any wrapping
CeilDiv(x, d) == (x + d - 1) \div d

\* C15: when max_shape has returned to partition() and ceil(n / max_inner)
\* exceeds max_outer, the bulk call of the flattening adapter has ended fatally
\* in partition(), no agent was dispatched and no future was returned
C15_TooLargeFailsInPartition ==
  (/\ gEntry = "flat"
   /\ maxShape[2] > 0
   /\ CeilDiv(flatN, maxShape[2]) > maxShape[1]) =>
    /\ hostPc = "aborted"
    /\ DOMAIN agentPc = {}
    /\ gFut = "none"

\* the agents of the adapter's launch that did not invoke the user function
SkippedAgents == {a \in DOMAIN agentPc : ~ FlatInvokes(a, gShape, flatN)}

\* C18: once every agent of the adapter's launch has finished, every agent that
\* skipped belongs to the last outer group, agents skipped only if n is not a
\* multiple of the inner size, and the number of agents that skipped is
\* outer_count * inner_size - n and is less than inner_size
C18_SkipsOnlyInLastGroup ==
  (/\ gEntry = "flat"
   /\ DOMAIN agentPc # {}
   /\ \A a \in DOMAIN agentPc : agentPc[a] = "done") =>
    /\ \A a \in SkippedAgents : a[1] = gShape[1] - 1
    /\ SkippedAgents # {} => flatN % gShape[2] # 0
    /\ Cardinality(SkippedAgents) = gShape[1] * gShape[2] - flatN
    /\ Cardinality(SkippedAgents) < gShape[2]

\* C19: whenever partition(f, n) has returned without a fatal error, the inner
\* size is max_inner and the outer count is ceil(n / max_inner), for every n of
\* size_t; hence outer_count * inner_size >= n, and outer_index * inner_size +
\* inner_index of any dispatched agent is below 2^(width of unsigned int)
C19_PartitionIsCeil ==
  (gEntry = "flat" /\ maxShape[2] > 0 /\ hostPc \notin {"call", "aborted"}) =>
    /\ gShape[2] = maxShape[2]
    /\ gShape[1] = CeilDiv(flatN, maxShape[2])
    /\ gShape[1] * gShape[2] >= flatN
    /\ \A a \in DOMAIN agentPc : a[1] * gShape[2] + a[2] < UIntModulus

----------------------------------------------------------------------------
(* Claims about the launch and the degenerate forms of the wrapper        *)

\* C16: a bulk_async / bulk_invoke given a tuple of two absent shared arguments
\* reaches launch() in the very state in which a direct bulk_async(f, shape) /
\* bulk_invoke(f, shape) begins, and from there on, as in the direct call, no
\* shared object exists or is handed to f, no agent passes or waits at a
\* barrier, the indices invoked are those of the shape, and f has been invoked
\* once on the index of every agent that entered it and on no other
C16_AbsentAbsentIsPlain ==
  (gEntry \in {"async", "invoke", "invokeDevice"} /\ ~ gOuter /\ ~ gInner) =>
    /\ (~ gPlain /\ hostPc = "launch") =>
         /\ agentPc = << >> /\ gCalls = << >> /\ barriers = << >>
         /\ outerRef = << >> /\ innerObj = << >>
         /\ gFut = "none" /\ promise = "none"
    /\ outerObj = "none" /\ outerCtor = 0
    /\ \A o \in DOMAIN innerObj :
         innerObj[o] = "raw" /\ innerCtor[o] = 0 /\ innerDtor[o] = 0
    /\ DOMAIN agentPc # {} => DOMAIN gCalls = AgentsOf(gShape)
    /\ \A a \in DOMAIN agentPc :
         /\ agentPc[a] \in {"start", "inF", "done"}
         /\ barriers[a] = 0
         /\ outerRef[a] = 0
         /\ gCalls[a] = (IF agentPc[a] = "start" THEN 0 ELSE 1)

C16_Witness ==
  /\ gEntry = "async"
  /\ ~ gPlain /\ ~ gOuter /\ ~ gInner
  /\ gShape = <<2, 2>>
  /\ gFut = "ready"
  /\ \A a \in AgentsOf(gShape) : agentPc[a] = "done" /\ gCalls[a] = 1

\* the shape asks for more than the device allows in one of its two extents
ExceedsLimit == gShape[1] > hwLimit[1] \/ gShape[2] > hwLimit[2]

\* C17: the agents of a launch are exactly the indices of outer extent x inner
\* extent of the shape, each index is handed to the kernel's function at most
\* once, and exactly once when every agent of the launch has finished; a launch
\* whose shape exceeds a limit of the device runs no agent and returns no
\* future, the call ending with an exception
C17_LaunchMapsShape ==
  gEntry \in {"async", "invoke", "invokeDevice"} =>
    /\ DOMAIN agentPc # {} =>
         /\ DOMAIN agentPc = AgentsOf(gShape)
         /\ DOMAIN gCalls = AgentsOf(gShape)
         /\ ~ ExceedsLimit
    /\ \A i \in DOMAIN gCalls : gCalls[i] <= 1
    /\ (DOMAIN agentPc # {} /\ \A a \in DOMAIN agentPc : agentPc[a] = "done") =>
         \A i \in AgentsOf(gShape) : gCalls[i] = 1
    /\ ExceedsLimit =>
         /\ DOMAIN agentPc = {}
         /\ gFut = "none"
         /\ hostPc \in {"call", "launch", "threw"}
         /\ hostPc # "threw" => ENABLED (GridCall \/ HostLaunch)

C17_Witness ==
  /\ gEntry = "async"
  /\ gShape = <<1, 2>>
  /\ hwLimit = <<1, 2>>
  /\ DOMAIN agentPc = {<<0, 0>>, <<0, 1>>}
  /\ \A a \in DOMAIN agentPc : agentPc[a] = "done" /\ gCalls[a] = 1

\* a launch beyond the device's limit has ended with an exception
C17_RefusedLaunch ==
  /\ gShape = <<2, 1>>
  /\ hwLimit = <<1, 2>>
  /\ hostPc = "threw"
  /\ DOMAIN agentPc = {}

\* C20: in all forms of the wrapper f is invoked exactly once per agent, with the
\* agent's own index. With the outer argument absent and the inner one present,
\* inner_param of a group is constructed by the agent of inner index 0 before it
\* arrives at the first barrier and destroyed by it after the second, every
\* agent passes one barrier before f and one after it, two in all, and f gets
\* no outer object. With the inner argument absent no agent passes or waits at
\* a barrier and no inner object is constructed or destroyed
C20_DegenerateWrappers ==
  gEntry \in {"async", "invoke", "invokeDevice"} =>
    /\ DOMAIN agentPc # {} => DOMAIN gCalls = AgentsOf(gShape)
    /\ \A a \in DOMAIN agentPc :
         gCalls[a] = (IF agentPc[a] \in {"start", "b1"} THEN 0 ELSE 1)
    /\ (~ gOuter /\ gInner) =>
         /\ outerObj = "none"
         /\ \A a \in DOMAIN agentPc :
              /\ outerRef[a] = 0
              /\ barriers[a] = (CASE agentPc[a] \in {"start", "b1"} -> 0
                                  [] agentPc[a] \in {"inF", "b2"} -> 1
                                  [] agentPc[a] = "done" -> 2)
         /\ \A o \in DOMAIN innerObj :
              /\ innerCtor[o] = (IF agentPc[<<o, 0>>] = "start" THEN 0 ELSE 1)
              /\ innerDtor[o] = (IF agentPc[<<o, 0>>] = "done" THEN 1 ELSE 0)
    /\ ~ gInner =>
         /\ \A a \in DOMAIN agentPc :
              agentPc[a] \in {"start", "inF", "done"} /\ barriers[a] = 0
         /\ \A o \in DOMAIN innerObj :
              innerObj[o] = "raw" /\ innerCtor[o] = 0 /\ innerDtor[o] = 0

C20_Witness ==
  /\ gEntry = "async"
  /\ ~ gOuter /\ gInner
  /\ gShape = <<2, 2>>
  /\ DOMAIN agentPc = AgentsOf(gShape)
  /\ \A a \in AgentsOf(gShape) :
       agentPc[a] = "done" /\ barriers[a] = 2 /\ gCalls[a] = 1
  /\ \A o \in DOMAIN innerObj : innerCtor[o] = 1 /\ innerDtor[o] = 1

\* the inner-absent form has run to its end
C20_InnerAbsentDone ==
  /\ gEntry = "async"
  /\ gOuter /\ ~ gInner
  /\ gShape = <<2, 2>>
  /\ DOMAIN agentPc = AgentsOf(gShape)
  /\ \A a \in AgentsOf(gShape) :
       agentPc[a] = "done" /\ barriers[a] = 0 /\ outerRef[a] = OuterPtr

----------------------------------------------------------------------------
(* Claims about the barriers of the shared-state protocol                 *)

\* some agent of outer group o can take its next step
GroupCanStep(o) ==
  \E b \in GroupOf(o) :
    ENABLED (Arrive1(b) \/ BeginF(b) \/ EndF(b) \/ Leave(b))

\* C21: with an inner shared argument every agent has passed no barrier before
\* it entered f, one while it is in f or waits at the second, and two when it
\* has finished; and a group with an unfinished agent always has an agent that
\* can take its next step, whatever the agents of the other groups are doing:
\* no group is stuck at a barrier and none waits for another group
C21_BarriersPerGroupOnly ==
  (gEntry \in {"async", "invoke", "invokeDevice"} /\ gInner) =>
    /\ \A a \in DOMAIN agentPc :
         barriers[a] = (CASE agentPc[a] \in {"start", "b1"} -> 0
                          [] agentPc[a] \in {"inF", "b2"} -> 1
                          [] agentPc[a] = "done" -> 2)
    /\ \A o \in DOMAIN innerObj :
         (\E a \in GroupOf(o) : agentPc[a] # "done") => GroupCanStep(o)

C21_Witness ==
  /\ gInner
  /\ gShape = <<2, 2>>
  /\ DOMAIN agentPc = AgentsOf(gShape)
  /\ \A a \in GroupOf(0) : agentPc[a] = "done" /\ barriers[a] = 2
  /\ \A a \in GroupOf(1) : agentPc[a] = "start"

----------------------------------------------------------------------------
(* Claims about the shared argument of the flattening adapter             *)

\* C22: in a bulk_async(f, n, shared_arg) of the flattening adapter at most one
\* shared object is made, and exactly one once the call has got past
\* partition(); every agent that entered the functor was handed that object as
\* the outer parameter; the user function was invoked on a flat index with a
\* reference to that one object and with nothing else; no inner object is
\* constructed or destroyed and no agent waits at or passes a barrier
C22_FlatSharedArgIsOuter ==
  (gEntry = "flat" /\ gOuter) =>
    /\ outerCtor <= 1
    /\ (maxShape[2] > 0 /\ hostPc \notin {"call", "aborted"}) =>
         outerCtor = 1 /\ outerObj # "none"
    /\ maxShape[2] = 0 => outerCtor = 0 /\ outerObj = "none"
    /\ \A a \in DOMAIN agentPc :
         /\ agentPc[a] \in {"start", "inF", "done"}
         /\ barriers[a] = 0
         /\ agentPc[a] # "start" => outerRef[a] = OuterPtr
         /\ (agentPc[a] # "start" /\ a[1] * gShape[2] + a[2] < flatN) =>
              /\ flatCalls[a[1] * gShape[2] + a[2]] = 1
              /\ flatRef[a[1] * gShape[2] + a[2]] = OuterPtr
    /\ \A i \in DOMAIN flatCalls :
         flatRef[i] = (IF flatCalls[i] > 0 THEN OuterPtr ELSE 0)
    /\ \A o \in DOMAIN innerObj :
         innerObj[o] = "raw" /\ innerCtor[o] = 0 /\ innerDtor[o] = 0

C22_Witness ==
  /\ gEntry = "flat"
  /\ gOuter
  /\ flatN = 3
  /\ maxShape = <<2, 2>>
  /\ DOMAIN agentPc = AgentsOf(<<2, 2>>)
  /\ \A a \in DOMAIN agentPc : agentPc[a] = "done"
  /\ \A i \in 0 .. 2 : flatCalls[i] = 1 /\ flatRef[i] = OuterPtr
  /\ flatCalls[3] = 0
  /\ outerCtor = 1

----------------------------------------------------------------------------
(* Claims about the shape of the fork-join of bulk_then_execute           *)

\* the task that spawned task t (0 for the continuation task)
ParentOf(t) ==
  IF \E p \in 1 .. Len(tasks) : tasks[p].left = t \/ tasks[p].right = t
  THEN CHOOSE p \in 1 .. Len(tasks) : tasks[p].left = t \/ tasks[p].right = t
  ELSE 0

RECURSIVE TaskDepth(_)
\* the nesting depth of task t, the continuation task having depth 1
TaskDepth(t) == IF ParentOf(t) = 0 THEN 1 ELSE 1 + TaskDepth(ParentOf(t))

\* the tasks that have called g(mid)
InvokedTasks == {t \in 1 .. Len(tasks) : tasks[t].pc \in {"inF", "waitL", "waitR", "done"}}

\* C23: in bulk_then_execute with n > 0 and f not throwing, every spawned task
\* has a range with first < last inside [0, n); the midpoints of the tasks are
\* pairwise different and each index was invoked by exactly the task whose
\* midpoint it is, once that task has called g; there are never more than n
\* tasks, and exactly n (the continuation and n - 1 spawned ones) when the
\* future is ready; and a task of depth d exists only if 2^(d - 1) <= n, that
\* is d <= floor(log2(n)) + 1
C23_TaskTreeShape ==
  n > 0 =>
    /\ \A t \in 1 .. Len(tasks) :
         /\ tasks[t].first < tasks[t].last
         /\ tasks[t].first >= 0 /\ tasks[t].last <= n
         /\ tasks[t].root <=> t = 1
         /\ 2 ^ (TaskDepth(t) - 1) <= n
         /\ \A u \in 1 .. Len(tasks) : u # t => Mid(tasks[u]) # Mid(tasks[t])
    /\ \A i \in 0 .. (n - 1) :
         calls["then"][i] = Cardinality({t \in InvokedTasks : Mid(tasks[t]) = i})
    /\ Len(tasks) <= n
    /\ thenFut = "ready" => Len(tasks) = n /\ InvokedTasks = 1 .. n

C23_Witness ==
  /\ n = 5
  /\ thenFut = "ready"
  /\ Len(tasks) = 5
  /\ \E t \in 1 .. Len(tasks) : TaskDepth(t) = 3
  /\ \A i \in 0 .. 4 : calls["then"][i] = 1

----------------------------------------------------------------------------
(* Claims about the termination of bulk_then_execute                      *)

\* C24: under fair scheduling, with the predecessor becoming ready and f
\* returning, the future bulk_then_execute returned is eventually ready, for
\* every n >= 0
C24_ThenFutureEventuallyReady == (thenFut # "none") ~> (thenFut = "ready")

C24_Witness ==
  /\ n = 4
  /\ predReady
  /\ thenFut = "ready"
  /\ Len(tasks) = 4
  /\ \A t \in 1 .. Len(tasks) : tasks[t].pc = "done"
  /\ syncState = "idle" /\ asyncFut = "none"

----------------------------------------------------------------------------
(* Claims about discarded futures, the callback's status and copy         *)

\* C25: discarding the future of bulk_async, bulk_async_execute or
\* bulk_then_execute does not stop the work. While the callback still owes its
\* set_value the shared state is alive and set_value never meets a dead state;
\* no agent runs twice; and when nothing of the calls remains to be done, every
\* agent of a call whose future was discarded ran exactly once, the host futures'
\* tasks ended normally, and the accelerator callback fired, fulfilled the
\* promise and deleted it, which freed the shared state
C25_DiscardDoesNotStopWork ==
  /\ promise \in {"alive", "fulfilled"} => gStateRefs >= 1
  /\ promise # "broken"
  /\ \A e \in {"async", "then"} : \A i \in Indices : calls[e][i] <= 1
  /\ \A a \in DOMAIN gCalls : gCalls[a] <= 1
  /\ (~ ENABLED NextDiscard) =>
       /\ "async" \in discarded =>
            /\ \A i \in 0 .. (n - 1) : calls["async"][i] = 1
            /\ asyncFut = "ready"
       /\ "then" \in discarded =>
            /\ \A i \in 0 .. (n - 1) : calls["then"][i] = 1
            /\ thenFut = "ready"
       /\ "grid" \in discarded =>
            /\ DOMAIN gCalls = (0 .. (gShape[1] - 1)) \X (0 .. (gShape[2] - 1))
            /\ \A a \in DOMAIN gCalls : gCalls[a] = 1
            /\ gFut = "ready"
            /\ promise = "released"
            /\ gStateRefs = 0

\* the accelerator future was discarded while the kernel had not even started,
\* and the callback has since fulfilled and deleted the promise
C25_Witness ==
  /\ "grid" \in discarded
  /\ gStateRefs = 0
  /\ promise = "released"
  /\ gShape = <<2, 2>>
  /\ \A a \in DOMAIN gCalls : gCalls[a] = 1

\* both host futures were discarded before any agent ran, and all agents ran
C25_HostDiscarded ==
  /\ discarded = {"async", "then"}
  /\ n >= 3
  /\ asyncFut = "ready" /\ thenFut = "ready"
  /\ \A i \in 0 .. (n - 1) : calls["async"][i] = 1 /\ calls["then"][i] = 1

\* bulk_async or bulk_invoke has thrown to its caller
C26_Threw == hostPc = "threw"

\* C26: the callback makes the future ready with a normal value whatever status
\* it is given: the future never holds an error, and after a callback that was
\* given an error status the future is ready and a bulk_invoke waiting on it
\* returns normally. A launch the device refuses and a callback the runtime
\* refuses to register make the call throw, and a call that threw has returned
\* no future; a future exists only after a launch that was accepted
C26_CallbackIgnoresStatus ==
  /\ gFut # "failed"
  /\ notifyStatus = "error" =>
       /\ gFut = "ready"
       /\ promise \in {"fulfilled", "released"}
       /\ hostPc # "threw"
  /\ (notifyStatus = "error" /\ gEntry = "invoke" /\ ~ ENABLED NextGrid) =>
       hostPc = "returned"
  /\ C26_Threw => gFut = "none" /\ notifyStatus = "none"
  /\ (hostPc \notin {"idle", "call", "launch"}
        /\ (gShape[1] > hwLimit[1] \/ gShape[2] > hwLimit[2])) =>
       C26_Threw /\ promise = "none"
  /\ promise = "leaked" => C26_Threw
  /\ gFut # "none" =>
       /\ gShape[1] <= hwLimit[1] /\ gShape[2] <= hwLimit[2]
       /\ promise \in {"alive", "fulfilled", "released"}

\* the callback was given an error status after a 2 x 2 launch on bulk_async;
\* the future is ready and the promise deleted
C26_Witness ==
  /\ notifyStatus = "error"
  /\ gEntry = "async"
  /\ gShape = <<2, 2>>
  /\ gFut = "ready"
  /\ promise = "released"
  /\ hostPc = "returned"

\* the registration of the callback was refused: the call threw
C26_RegistrationRefused ==
  /\ promise = "leaked"
  /\ hostPc = "threw"
  /\ gFut = "none"

\* both overloads of copy have returned
C27_BothReturned == cpPc = "returned" /\ cpSeqRet # << >>

\* the part of C27 about the elements: every rank wrote once, result[i] holds
\* what first[i] held, and the array is what the sequential overload leaves
C27_ElementsCopied ==
  C27_BothReturned =>
    /\ DOMAIN cpWrites = 0 .. (cpLast - cpFirst - 1)
    /\ \A i \in DOMAIN cpWrites :
         cpWrites[i] = 1 /\ cpMem[cpResult + i] = CopyMem0[cpFirst + i]
    /\ cpMem = cpSeqMem

\* C27: when the parallel overload of copy has returned, every rank i of
\* [0, n) wrote result[i] = first[i] exactly once, and the iterator it returned
\* is the one the sequential overload returns for the same arguments, result + n
C27_ParallelCopyLikeSequential ==
  C27_BothReturned =>
    /\ DOMAIN cpWrites = 0 .. (cpLast - cpFirst - 1)
    /\ \A i \in DOMAIN cpWrites :
         cpWrites[i] = 1 /\ cpMem[cpResult + i] = CopyMem0[cpFirst + i]
    /\ cpRet = cpSeqRet[1]
    /\ cpRet = cpResult + (cpLast - cpFirst)

\* two elements copied from the front of the array to four places further on:
\* the parallel overload returns result itself
C27_ReturnsResultItself ==
  /\ C27_BothReturned
  /\ cpFirst = 0 /\ cpLast = 2 /\ cpResult = 4
  /\ cpRet = 4
  /\ cpSeqRet = <<6>>

====
